---- MODULE Spec2Model ----
(***************************************************************************)
(* Friendship request router (send / accept / decline) over the            *)
(* `friendships` table.  Each tRPC call is a process: its middleware guard *)
(* and its mutation body are separate steps, send's SELECT and its write   *)
(* are separate statements, and the bodies of accept and decline run in    *)
(* one database transaction each.                                          *)
(***************************************************************************)
EXTENDS Integers, Sequences, FiniteSets

\* ---------------------------------------------------------------- bounds
MaxCalls == 3          \* calls issued in one behaviour
MaxInFlight == 2       \* calls that may overlap in time

\* ------------------------------------------------------------- universes
users == {1, 2}                    \* rows of the `users` table
IdSchema == {1, 2, 3}              \* ids a client may put in friendUserId
FriendshipStatusSchema == {"requested", "accepted", "declined"}
Ops == {"send", "accept", "decline"}
Procs == 1..MaxInFlight

VARIABLES friendships, nextId, calls, returned, log

vars == <<friendships, nextId, calls, returned, log>>

Idle == [pc |-> "idle", op |-> "send", caller |-> 1, target |-> 1,
         existingRequest |-> 0, pre |-> {}, start |-> 0]

Init ==
    /\ friendships = {}
    /\ nextId = 1
    /\ calls = [p \in Procs |-> Idle]
    /\ returned = 0
    /\ log = <<>>

\* ------------------------------------------------------ store primitives
\* SELECT ... WHERE userId = u AND friendUserId = f AND status = s
Matching(fs, u, f, s) ==
    {r \in fs : r.userId = u /\ r.friendUserId = f /\ r.status = s}

\* UPDATE friendships SET status = s WHERE <row in rows>
UpdateWhere(fs, rows, s) ==
    {IF r \in rows THEN [r EXCEPT !.status = s] ELSE r : r \in fs}

\* UPDATE friendships SET status = s WHERE id = i
UpdateById(fs, i, s) ==
    {IF r.id = i THEN [r EXCEPT !.status = s] ELSE r : r \in fs}

\* the table without its uniqueness constraint
NoUniqueViolation(fs, u, f) == FALSE

\* the table's uniqueness constraint on (userId, friendUserId): an INSERT of
\* a pair that already has a row throws
UniqueViolation(fs, u, f) ==
    \E r \in fs : r.userId = u /\ r.friendUserId = f

\* INSERT INTO friendships (userId, friendUserId, status), id generated
InsertRow(fs, i, u, f, s) ==
    fs \cup {[id |-> i, userId |-> u, friendUserId |-> f, status |-> s]}

\* ----------------------------------------------------------- call frames
InFlight == {p \in Procs : calls[p].pc # "idle"}

\* the three most recently returned calls, oldest first
Remember(l, e) ==
    LET l2 == Append(l, e) IN IF Len(l2) > 3 THEN Tail(l2) ELSE l2

\* the call returns to the client: success or the TRPCError it threw.  The
\* log keeps, per returned call, the store when its first step ran (pre) and
\* when it returned (post), how many calls had returned by then (start, end),
\* the rows its inbound UPDATE matched and the injected store fault
Return(p, c, result, rows, fault) ==
    /\ returned' = returned + 1
    /\ log' = Remember(log,
                 [op |-> c.op, caller |-> c.caller, target |-> c.target,
                  result |-> result, pre |-> c.pre, post |-> friendships',
                  start |-> c.start, end |-> returned + 1,
                  rows |-> rows, fault |-> fault])
    /\ calls' = [calls EXCEPT ![p] = Idle]

\* a client may issue a call now, handled by p
CanCall(p, limit) ==
    /\ calls[p].pc = "idle"
    /\ \A q \in Procs : q < p => calls[q].pc # "idle"
    /\ Cardinality(InFlight) < limit
    /\ returned + Cardinality(InFlight) < MaxCalls

\* the frame of a call entering its middleware
Frame(op, caller, target) ==
    [Idle EXCEPT !.op = op, !.caller = caller, !.target = target,
                 !.pre = friendships, !.start = returned]

\* ------------------------------------------------------------ middleware
\* the users lookup taken out of send's guard
anyTarget(target) == TRUE

\* SELECT id FROM users WHERE id = friendUserId finds a row
knownUser(target) == target \in users

\* the status predicate taken out of the answer guard
inboundAnyStatus(fs, caller, target) ==
    \E r \in fs : r.userId = target /\ r.friendUserId = caller

\* SELECT id FROM friendships WHERE userId = friendUserId AND friendUserId =
\* session.userId AND status = 'requested' finds a row
inboundRequested(fs, caller, target) ==
    Matching(fs, target, caller, "requested") # {}

\* a send call arrives (session.userId is an authenticated user) and runs
\* its guard: the target must be a row of `users`
canSendFriendshipRequest(p, limit) ==
    /\ CanCall(p, limit)
    /\ UNCHANGED <<friendships, nextId>>
    /\ \E caller \in users, target \in IdSchema :
          LET c == Frame("send", caller, target)
          IN  IF knownUser(target)
                THEN /\ calls' = [calls EXCEPT ![p] =
                                    [c EXCEPT !.pc = "select"]]
                     /\ UNCHANGED <<returned, log>>
                ELSE Return(p, c, "BAD_REQUEST", 0, 0)

\* an accept or decline call arrives and runs its guard: an inbound
\* `requested` row must exist
canAnswerFriendshipRequest(p, limit) ==
    /\ CanCall(p, limit)
    /\ UNCHANGED <<friendships, nextId>>
    /\ \E op \in {"accept", "decline"}, caller \in users, target \in IdSchema :
          LET c == Frame(op, caller, target)
          IN  IF inboundRequested(friendships, caller, target)
                THEN /\ calls' = [calls EXCEPT ![p] =
                                    [c EXCEPT !.pc = "body"]]
                     /\ UNCHANGED <<returned, log>>
                ELSE Return(p, c, "BAD_REQUEST", 0, 0)

\* ------------------------------------------------------------------ send
\* send as it was before the re-send fix: it never looks for a declined row
existingRequestNone(fs, caller, target) == {0}

\* send's lookup without its status predicate: any row of the pair
existingRequestAnyStatus(fs, caller, target) ==
    LET rows == {r \in fs : r.userId = caller /\ r.friendUserId = target}
    IN  IF rows = {} THEN {0} ELSE {r.id : r \in rows}

\* rows send's lookup of a declined request may return, 0 when it finds none
existingRequest(fs, caller, target) ==
    LET declined == Matching(fs, caller, target, "declined")
    IN  IF declined = {} THEN {0} ELSE {r.id : r \in declined}

\* first statement of send: look for the caller's declined request
sendSelect(p) ==
    /\ calls[p].pc = "select"
    /\ \E e \in existingRequest(friendships, calls[p].caller,
                                calls[p].target) :
          calls' = [calls EXCEPT ![p].pc = "write",
                                 ![p].existingRequest = e]
    /\ UNCHANGED <<friendships, nextId, returned, log>>

\* second statement of send: re-open the declined row, or insert a new one
sendWrite(p) ==
    /\ calls[p].pc = "write"
    /\ LET c == calls[p]
       IN  IF c.existingRequest # 0
             THEN /\ friendships' = UpdateById(friendships,
                                               c.existingRequest, "requested")
                  /\ UNCHANGED nextId
                  /\ Return(p, c, "OK", 0, 0)
             ELSE IF UniqueViolation(friendships, c.caller, c.target)
                    THEN /\ UNCHANGED <<friendships, nextId>>
                         /\ Return(p, c, "INTERNAL_SERVER_ERROR", 0, 0)
                    ELSE /\ friendships' = InsertRow(friendships, nextId,
                                             c.caller, c.target, "requested")
                         /\ nextId' = nextId + 1
                         /\ Return(p, c, "OK", 0, 0)

\* ---------------------------------------------------------- transactions
\* statements applied directly, nothing rolled back
transactionNoRollback(fs, nid, body) ==
    [store |-> body.store, nextId |-> body.nextId]

\* db.transaction().execute(body): commit what the body wrote when it
\* returns, roll everything back when it throws
transaction(fs, nid, body) ==
    IF body.ok THEN [store |-> body.store, nextId |-> body.nextId]
               ELSE [store |-> fs, nextId |-> nid]

\* accept that only answers the inbound row
acceptBodyNoReverse(fs, nid, caller, target, fault, pick) ==
    LET inbound == Matching(fs, target, caller, "requested")
    IN  [ok |-> fault = 0,
         store |-> IF fault = 1 THEN fs
                                ELSE UpdateWhere(fs, inbound, "accepted"),
         nextId |-> nid,
         rows |-> IF fault = 1 THEN 0 ELSE Cardinality(inbound)]

\* body of accept's transaction.  fault = k > 0: statement k throws a store
\* error; pick: the row executeTakeFirst returns for the reverse lookup
acceptBody(fs, nid, caller, target, fault, pick) ==
    LET inbound == Matching(fs, target, caller, "requested")
        s1 == UpdateWhere(fs, inbound, "accepted")
    IN  IF fault = 1
          THEN [ok |-> FALSE, store |-> fs, nextId |-> nid, rows |-> 0]
        ELSE IF fault = 2
          THEN [ok |-> FALSE, store |-> s1, nextId |-> nid,
                rows |-> Cardinality(inbound)]
        ELSE IF fault = 3 \/ (pick = 0 /\ UniqueViolation(s1, caller, target))
          THEN [ok |-> FALSE, store |-> s1, nextId |-> nid,
                rows |-> Cardinality(inbound)]
        ELSE IF pick = 0
          THEN [ok |-> TRUE,
                store |-> InsertRow(s1, nid, caller, target, "accepted"),
                nextId |-> nid + 1, rows |-> Cardinality(inbound)]
          ELSE [ok |-> TRUE, store |-> UpdateById(s1, pick, "accepted"),
                nextId |-> nid, rows |-> Cardinality(inbound)]

\* reverse lookup that never finds the crossing request
existingOppositeRequestNone(fs, caller, target) == {0}

\* rows the reverse lookup of accept may return, 0 when it finds none
existingOppositeRequest(fs, caller, target) ==
    LET s1 == UpdateWhere(fs, Matching(fs, target, caller, "requested"),
                          "accepted")
        opp == Matching(s1, caller, target, "requested")
    IN  IF opp = {} THEN {0} ELSE {r.id : r \in opp}

\* decline that answers the request and also writes the reverse row
declineBodyBothWays(fs, nid, caller, target, fault) ==
    LET inbound == Matching(fs, target, caller, "requested")
    IN  IF fault = 1
          THEN [ok |-> FALSE, store |-> fs, nextId |-> nid, rows |-> 0]
          ELSE [ok |-> TRUE,
                store |-> InsertRow(UpdateWhere(fs, inbound, "declined"),
                                    nid, caller, target, "declined"),
                nextId |-> nid + 1, rows |-> Cardinality(inbound)]

\* decline that also closes the decliner's own request to the requester
declineBodyReverseToo(fs, nid, caller, target, fault) ==
    LET inbound == Matching(fs, target, caller, "requested")
        outbound == Matching(fs, caller, target, "requested")
    IN  IF fault = 1
          THEN [ok |-> FALSE, store |-> fs, nextId |-> nid, rows |-> 0]
          ELSE [ok |-> TRUE,
                store |-> UpdateWhere(fs, inbound \cup outbound, "declined"),
                nextId |-> nid, rows |-> Cardinality(inbound)]

\* decline that deletes the request instead of marking it
declineBodyDeletes(fs, nid, caller, target, fault) ==
    LET inbound == Matching(fs, target, caller, "requested")
    IN  IF fault = 1
          THEN [ok |-> FALSE, store |-> fs, nextId |-> nid, rows |-> 0]
          ELSE [ok |-> TRUE, store |-> fs \ inbound,
                nextId |-> nid, rows |-> Cardinality(inbound)]

\* body of decline's transaction
declineBody(fs, nid, caller, target, fault) ==
    LET inbound == Matching(fs, target, caller, "requested")
    IN  IF fault = 1
          THEN [ok |-> FALSE, store |-> fs, nextId |-> nid, rows |-> 0]
          ELSE [ok |-> TRUE, store |-> UpdateWhere(fs, inbound, "declined"),
                nextId |-> nid, rows |-> Cardinality(inbound)]

accept(p) ==
    /\ calls[p].pc = "body"
    /\ calls[p].op = "accept"
    /\ LET c == calls[p]
       IN  \E fault \in 0..3 :
           \E pick \in existingOppositeRequest(friendships, c.caller,
                                               c.target) :
             LET body == acceptBody(friendships, nextId, c.caller, c.target,
                                    fault, pick)
                 t == transaction(friendships, nextId, body)
             IN  /\ friendships' = t.store
                 /\ nextId' = t.nextId
                 /\ Return(p, c, IF body.ok THEN "OK"
                                            ELSE "INTERNAL_SERVER_ERROR",
                           body.rows, fault)

decline(p) ==
    /\ calls[p].pc = "body"
    /\ calls[p].op = "decline"
    /\ LET c == calls[p]
       IN  \E fault \in 0..1 :
             LET body == declineBody(friendships, nextId, c.caller, c.target,
                                     fault)
                 t == transaction(friendships, nextId, body)
             IN  /\ friendships' = t.store
                 /\ nextId' = t.nextId
                 /\ Return(p, c, IF body.ok THEN "OK"
                                            ELSE "INTERNAL_SERVER_ERROR",
                           body.rows, fault)

\* ---------------------------------------------------------- specifications
Step(p, limit) ==
    \/ canSendFriendshipRequest(p, limit)
    \/ canAnswerFriendshipRequest(p, limit)
    \/ sendSelect(p)
    \/ sendWrite(p)
    \/ accept(p)
    \/ decline(p)

\* calls overlap: any interleaving of their steps
Next == \E p \in Procs : Step(p, MaxInFlight)

Spec == Init /\ [][Next]_vars

\* calls run one after the other
SeqNext == \E p \in Procs : Step(p, 1)

SeqSpec == Init /\ [][SeqNext]_vars

\* the store after Send(1,2) and Decline(2,1) have returned: one declined
\* request.  The call counter and the log start afresh from here
DeclinedInit ==
    /\ friendships = {[id |-> 1, userId |-> 1, friendUserId |-> 2,
                       status |-> "declined"]}
    /\ nextId = 2
    /\ calls = [p \in Procs |-> Idle]
    /\ returned = 0
    /\ log = <<>>

\* overlapping calls that follow a declined request
ResendSpec == DeclinedInit /\ [][Next]_vars

TypeOK ==
    /\ \A r \in friendships :
          /\ r.id \in 1..(nextId - 1)
          /\ r.userId \in users
          /\ r.friendUserId \in users
          /\ r.status \in FriendshipStatusSchema
    /\ \A p \in Procs : calls[p].pc \in {"idle", "select", "write", "body"}
    /\ returned \in 0..MaxCalls
    /\ Len(log) <= 3

\* ------------------------------------------------------------ properties
\* rows of the directed pair (u, f)
Pair(fs, u, f) == {r \in fs : r.userId = u /\ r.friendUserId = f}

\* rows between two users, either direction
Between(fs, a, b) == Pair(fs, a, b) \cup Pair(fs, b, a)

IsCall(e, op, caller, target) ==
    e.op = op /\ e.caller = caller /\ e.target = target

\* the pair (u, f) has exactly one row and its status is s
OneRow(fs, u, f, s) ==
    \E r \in fs : Pair(fs, u, f) = {r} /\ r.status = s

Ok(e) == e.result = "OK"

\* log positions i, i+1, i+2 hold Send(a,b), Decline(b,a), Send(a,b), the
\* first issued with no (a,b) row, the decline not hit by a store fault
ResendAfterDecline(i, a, b) ==
    /\ i + 2 <= Len(log)
    /\ IsCall(log[i], "send", a, b)
    /\ Pair(log[i].pre, a, b) = {}
    /\ IsCall(log[i + 1], "decline", b, a)
    /\ log[i + 1].fault = 0
    /\ IsCall(log[i + 2], "send", a, b)

\* C1: Send(A,B), Decline(B,A), Send(A,B) from a store with no (A,B) row
\* succeeds at every step and ends with exactly one (A,B) row, requested.
C1_ResendAfterDecline ==
    \A a \in users, b \in users, i \in 1..Len(log) :
        ResendAfterDecline(i, a, b) =>
            /\ Ok(log[i]) /\ Ok(log[i + 1]) /\ Ok(log[i + 2])
            /\ OneRow(log[i + 2].post, a, b, "requested")

C1_Witness ==
    \E a \in users, b \in users, i \in 1..Len(log) :
        /\ ResendAfterDecline(i, a, b)
        /\ OneRow(log[i + 1].post, a, b, "declined")
        /\ Ok(log[i + 2])

\* C2: under any interleaving of calls, a directed pair (userId,
\* friendUserId) never has more than one row.
C2_OneRowPerPair ==
    \A r1 \in friendships, r2 \in friendships :
        (r1.userId = r2.userId /\ r1.friendUserId = r2.friendUserId)
            => r1 = r2

\* a send was issued to a target the caller already had a row for
C2_Witness ==
    \E i \in 1..Len(log) :
        /\ log[i].op = "send"
        /\ log[i].result # "BAD_REQUEST"
        /\ Pair(log[i].pre, log[i].caller, log[i].target) # {}
        /\ Pair(friendships, log[i].caller, log[i].target) # {}

\* positions i, i+1 hold Send(a,b), Accept(b,a), no rows between a and b
\* when the send was issued, the accept not hit by a store fault
SendThenAccept(i, a, b) ==
    /\ i + 1 <= Len(log)
    /\ a # b
    /\ IsCall(log[i], "send", a, b)
    /\ Between(log[i].pre, a, b) = {}
    /\ IsCall(log[i + 1], "accept", b, a)
    /\ log[i + 1].fault = 0

\* C3: Send(A,B) then Accept(B,A), from no rows between A and B, leaves
\* exactly two rows between them: (A,B,accepted) and (B,A,accepted).
C3_MutualAcceptOneSided ==
    \A a \in users, b \in users, i \in 1..Len(log) :
        SendThenAccept(i, a, b) =>
            /\ Ok(log[i]) /\ Ok(log[i + 1])
            /\ OneRow(log[i + 1].post, a, b, "accepted")
            /\ OneRow(log[i + 1].post, b, a, "accepted")
            /\ Cardinality(Between(log[i + 1].post, a, b)) = 2

C3_Witness ==
    \E a \in users, b \in users, i \in 1..Len(log) :
        /\ SendThenAccept(i, a, b)
        /\ Pair(log[i + 1].pre, b, a) = {}
        /\ Pair(log[i + 1].post, b, a) # {}

\* positions i..i+2 hold Send(a,b), Send(b,a), Accept(b,a)
CrossRequests(i, a, b) ==
    /\ i + 2 <= Len(log)
    /\ a # b
    /\ IsCall(log[i], "send", a, b)
    /\ Between(log[i].pre, a, b) = {}
    /\ IsCall(log[i + 1], "send", b, a)
    /\ IsCall(log[i + 2], "accept", b, a)
    /\ log[i + 2].fault = 0

Ids(fs) == {r.id : r \in fs}

\* C4: Send(A,B), Send(B,A), Accept(B,A), from no rows between A and B,
\* leaves exactly two rows between them, both accepted, and the accept
\* creates no row.
C4_MutualAcceptCross ==
    \A a \in users, b \in users, i \in 1..Len(log) :
        CrossRequests(i, a, b) =>
            /\ Ok(log[i]) /\ Ok(log[i + 1]) /\ Ok(log[i + 2])
            /\ OneRow(log[i + 2].post, a, b, "accepted")
            /\ OneRow(log[i + 2].post, b, a, "accepted")
            /\ Cardinality(Between(log[i + 2].post, a, b)) = 2
            /\ Ids(log[i + 2].post) = Ids(log[i + 2].pre)

C4_Witness ==
    \E a \in users, b \in users, i \in 1..Len(log) :
        /\ CrossRequests(i, a, b)
        /\ OneRow(log[i + 2].pre, b, a, "requested")
        /\ OneRow(log[i + 2].post, b, a, "accepted")

\* finished calls i < j overlapped in time: j was issued before i returned
Overlap(i, j) == i < j /\ log[j].start < log[i].end

\* two Accept(b,a) calls overlap: both finished, one finished and one in
\* flight, or both in flight
ConcurrentAccepts(b, a) ==
    \/ \E i \in 1..Len(log), j \in 1..Len(log) :
          /\ Overlap(i, j)
          /\ IsCall(log[i], "accept", b, a)
          /\ IsCall(log[j], "accept", b, a)
    \/ \E i \in 1..Len(log), p \in InFlight :
          /\ calls[p].start < log[i].end
          /\ IsCall(log[i], "accept", b, a)
          /\ IsCall(calls[p], "accept", b, a)
    \/ \E p \in InFlight, q \in InFlight :
          /\ p # q
          /\ IsCall(calls[p], "accept", b, a)
          /\ IsCall(calls[q], "accept", b, a)

\* C5: two overlapping Accept(B,A) calls, whatever the interleaving of their
\* guards and transactions, never leave more than one (B,A) row.
C5_ConcurrentAcceptNoDuplicate ==
    \A a \in users, b \in users :
        ConcurrentAccepts(b, a) => Cardinality(Pair(friendships, b, a)) <= 1

\* both accepts passed the guard before either transaction ran; both ran
C5_Witness ==
    \E i \in 1..Len(log), j \in 1..Len(log) :
        /\ Overlap(i, j)
        /\ log[i].caller # log[i].target
        /\ IsCall(log[j], "accept", log[i].caller, log[i].target)
        /\ log[i].op = "accept"
        /\ Ok(log[i])
        /\ log[j].fault = 0
        /\ log[j].result = "INTERNAL_SERVER_ERROR"
        /\ Cardinality(Pair(friendships, log[i].caller, log[i].target)) = 1

\* C6: Accept(B,A) or Decline(B,A) called when no (A,B,requested) row exists
\* fails with BAD_REQUEST and leaves the store as it was.
C6_AuthorizationGuard ==
    \A i \in 1..Len(log) :
        (/\ log[i].op \in {"accept", "decline"}
         /\ Matching(log[i].pre, log[i].target, log[i].caller,
                     "requested") = {})
            => /\ log[i].result = "BAD_REQUEST"
               /\ log[i].post = log[i].pre

\* an answer was refused although an answered (A,B) row exists
C6_Witness ==
    \E i \in 1..Len(log) :
        /\ log[i].op \in {"accept", "decline"}
        /\ Pair(log[i].pre, log[i].target, log[i].caller) # {}
        /\ log[i].result = "BAD_REQUEST"

\* C7: every Accept or Decline that returns success has itself answered an
\* inbound requested row; its body never runs without one.
C7_NoSilentNoOp ==
    \A i \in 1..Len(log) :
        (/\ log[i].op \in {"accept", "decline"}
         /\ log[i].caller # log[i].target
         /\ Ok(log[i]))
            => log[i].rows > 0

\* positions i, i+1 hold Send(a,b), Decline(b,a)
SendThenDecline(i, a, b) ==
    /\ i + 1 <= Len(log)
    /\ a # b
    /\ IsCall(log[i], "send", a, b)
    /\ Between(log[i].pre, a, b) = {}
    /\ IsCall(log[i + 1], "decline", b, a)
    /\ log[i + 1].fault = 0

\* C8: Send(A,B) then Decline(B,A), from no rows between A and B, leaves
\* (A,B) declined and no (B,A) row.
C8_DeclineOneDirectional ==
    \A a \in users, b \in users, i \in 1..Len(log) :
        SendThenDecline(i, a, b) =>
            /\ Ok(log[i]) /\ Ok(log[i + 1])
            /\ OneRow(log[i + 1].post, a, b, "declined")
            /\ Pair(log[i + 1].post, b, a) = {}

C8_Witness ==
    \E a \in users, b \in users, i \in 1..Len(log) :
        /\ SendThenDecline(i, a, b)
        /\ OneRow(log[i + 1].pre, a, b, "requested")
        /\ Ok(log[i + 1])

\* C9: Send(A,X) with X not in `users` fails with BAD_REQUEST and creates or
\* changes no row.
C9_InvalidTarget ==
    \A i \in 1..Len(log) :
        (log[i].op = "send" /\ log[i].target \notin users)
            => /\ log[i].result = "BAD_REQUEST"
               /\ log[i].post = log[i].pre
               /\ Pair(friendships, log[i].caller, log[i].target) = {}

C9_Witness ==
    \E i \in 1..Len(log) :
        /\ log[i].op = "send"
        /\ log[i].target \notin users
        /\ log[i].pre # {}

\* C10: an Accept(B,A) whose transaction fails at any statement leaves the
\* store as it was: (A,B) still requested, (B,A) neither created nor changed.
C10_AcceptAllOrNothing ==
    \A i \in 1..Len(log) :
        (log[i].op = "accept" /\ log[i].result = "INTERNAL_SERVER_ERROR")
            => /\ log[i].post = log[i].pre
               /\ Matching(log[i].post, log[i].target, log[i].caller,
                           "requested") # {}

\* the transaction had already answered the inbound row when it failed
C10_Witness ==
    \E i \in 1..Len(log) :
        /\ log[i].op = "accept"
        /\ log[i].result = "INTERNAL_SERVER_ERROR"
        /\ log[i].rows > 0

\* the status changes a row may go through
Allowed(from, to) ==
    \/ from = to
    \/ from = "requested" /\ to \in {"accepted", "declined"}
    \/ from = "declined" /\ to = "requested"

\* C11: the status of a row changes only along requested -> accepted,
\* requested -> declined or declined -> requested; an accepted row never
\* changes status again.
C11_StatusTransitions ==
    [][\A r \in friendships : \A r2 \in friendships' :
          r2.id = r.id => Allowed(r.status, r2.status)]_vars

\* accept i ran its transaction, met no store fault, and its inbound UPDATE
\* matched no row because the inbound row was already accepted
AcceptOnAccepted(i) ==
    /\ log[i].op = "accept"
    /\ log[i].caller # log[i].target
    /\ log[i].result # "BAD_REQUEST"
    /\ log[i].fault = 0
    /\ log[i].rows = 0
    /\ \E r \in Pair(log[i].post, log[i].target, log[i].caller) :
          r.status = "accepted"

\* C12: when Accept(B,A)'s transaction runs while (A,B) is already accepted,
\* the inbound UPDATE matches zero rows, (A,B) stays accepted and the
\* transaction commits without error.
C12_IdempotenceBoundary ==
    \A i \in 1..Len(log) : AcceptOnAccepted(i) => Ok(log[i])

\* post is pre with the one row r set to requested
Reopened(pre, post, r) ==
    post = (pre \ {r}) \cup {[r EXCEPT !.status = "requested"]}

\* post is pre plus one new row (a, b, requested)
Inserted(pre, post, a, b) ==
    \E n \in post :
        /\ n \notin pre
        /\ n.id \notin Ids(pre)
        /\ post = pre \cup {n}
        /\ n.userId = a /\ n.friendUserId = b /\ n.status = "requested"

DeclineRuns(p) ==
    /\ calls[p].pc = "body"
    /\ calls[p].op = "decline"
    /\ calls'[p].pc = "idle"

\* row r2 is row r after a Decline(caller, target): same keys, and a changed
\* status only for an inbound requested row, which becomes declined
AfterDecline(r, r2, caller, target) ==
    /\ r2.id = r.id
    /\ r2.userId = r.userId
    /\ r2.friendUserId = r.friendUserId
    /\ \/ r2.status = r.status
       \/ /\ r.userId = target /\ r.friendUserId = caller
          /\ r.status = "requested" /\ r2.status = "declined"

\* C14: Decline(B,A) in any state changes only (A,B,requested) rows, setting
\* them to declined; it creates no row and every other row, the decliner's
\* own (B,A) row included, keeps its status.
C14_DeclineFrame ==
    [][\A p \in Procs : DeclineRuns(p) =>
          /\ Ids(friendships') = Ids(friendships)
          /\ Cardinality(friendships') = Cardinality(friendships)
          /\ \A r \in friendships : \E r2 \in friendships' :
                AfterDecline(r, r2, calls[p].caller, calls[p].target)]_vars

\* a decline answered a request while the decliner's own request to the
\* requester was pending, and left it pending
C14_Witness ==
    \E i \in 1..Len(log) :
        /\ log[i].op = "decline" /\ Ok(log[i])
        /\ log[i].caller # log[i].target
        /\ log[i].rows > 0
        /\ Matching(log[i].post, log[i].target, log[i].caller,
                    "declined") # {}
        /\ Matching(log[i].post, log[i].caller, log[i].target,
                    "requested") # {}

\* positions i, i+1 hold two Send(a,b) calls, each arrived when (a,b) had
\* exactly one row, declined, and no other call returned while they ran
TwoResends(i, a, b) ==
    /\ i + 1 <= Len(log)
    /\ IsCall(log[i], "send", a, b)
    /\ IsCall(log[i + 1], "send", a, b)
    /\ OneRow(log[i].pre, a, b, "declined")
    /\ OneRow(log[i + 1].pre, a, b, "declined")
    /\ log[i].start = log[i].end - 1
    /\ log[i + 1].start = log[i].end - 1

\* C15: two overlapping Send(A,B) calls issued when exactly one (A,B,declined)
\* row exists leave, under any interleaving of their reads and writes,
\* exactly one (A,B) row, with status requested.
C15_ConcurrentResend ==
    \A a \in users, b \in users, i \in 1..Len(log) :
        TwoResends(i, a, b) => OneRow(log[i + 1].post, a, b, "requested")

\* the second send read after the first one wrote: it no longer found the
\* declined row and its insert was rejected
C15_Witness ==
    \E a \in users, b \in users, i \in 1..Len(log) :
        /\ TwoResends(i, a, b)
        /\ Ok(log[i])
        /\ log[i + 1].result = "INTERNAL_SERVER_ERROR"

\* C16: friendship is symmetric in every reachable state: whenever an
\* (A,B,accepted) row exists, a (B,A,accepted) row exists too.
C16_FriendshipSymmetric ==
    \A r \in friendships :
        r.status = "accepted" =>
            Matching(friendships, r.friendUserId, r.userId, "accepted") # {}

\* C17: no step deletes or re-keys a row: the set of row ids never shrinks
\* and every row keeps its id, userId and friendUserId; only status changes.
C17_NoDeleteNoRekey ==
    [][\A r \in friendships : \E r2 \in friendships' :
          /\ r2.id = r.id
          /\ r2.userId = r.userId
          /\ r2.friendUserId = r.friendUserId]_vars

\* a call changed the status of a row that was there before it, and the row
\* is still in the store under the same id and keys
C17_Witness ==
    \E i \in 1..Len(log) : \E r \in log[i].pre : \E r2 \in friendships :
        /\ Ok(log[i])
        /\ [r EXCEPT !.status = "declined"] \in log[i].post
        /\ r.status = "requested"
        /\ r2.id = r.id
        /\ r2.userId = r.userId
        /\ r2.friendUserId = r.friendUserId
====
